---- MODULE Spec2Model ----
(***************************************************************************)
(* A state-machine model of nio-poll-bot: the poll store (storage.py), the *)
(* tally renderer, the lifecycle handler Callbacks.unknown and the history *)
(* recovery coordinator Callbacks.message (callbacks.py).                  *)
(*                                                                         *)
(* A rendered message f"{label} `{topic}`:\n\n{data}" is held as the       *)
(* record [label, topic, lines]: the backquote cannot be written in a      *)
(* string here, and data is held as the sequence of its lines, each of     *)
(* which the code terminates with "\n" (Body joins them).                  *)
(***************************************************************************)
EXTENDS Naturals, Sequences, FiniteSets, TLC

VARIABLES
    polls,              \* table polls: rows in rowid (insertion) order
    answers,            \* table answers
    responses,          \* table responses
    outbox,             \* the calls made to send_text_to_room, in order
    sent,               \* number of messages the server accepted (names res.event_id)
    timeline,           \* per room: the events of the room, oldest first
    loaded_sync_token,  \* per room: the timeline position of client.loaded_sync_token
    joined,             \* the rooms the bot receives events of
    filter_old_messages,\* config.filter_old_messages
    replay,             \* Callbacks.message: what is left of event_history
    requests,           \* number of text messages handled by Callbacks.message
    redelivered,        \* number of events the sync loop has handed over again
    budget,             \* how many inputs, and text messages among them, the run holds
    recovered,          \* the polls of which a recovery run sent the tally
    closed,             \* the polls a PollEnd has removed from the store
    run,                \* the latest recovery run: where it began, what it replays
    last                \* the latest handler invocation, with the store before it

vars == <<polls, answers, responses, outbox, sent, timeline, loaded_sync_token,
          joined, filter_old_messages, replay, requests, redelivered, budget,
          recovered, closed, run, last>>

----------------------------------------------------------------------------
(* Bounds of the model *)

MaxEvents == 3

MaxRequests == 2

PageSize == 2

MaxRedeliveries == 1

----------------------------------------------------------------------------
(* Program constants and the small universes the inputs are drawn from *)

StaleAfter == 300

None == "None"

Rooms == {"!r1", "!r2"}

BotUser == "@poll:x"

Users == {"@amy:x", "@bob:x"}

EventIds == <<"$1", "$2", "$3", "$4", "$5", "$6", "$7", "$8">>

TextIds == <<"$t1", "$t2", "$t3", "$t4">>

MsgIds == <<"$m1", "$m2", "$m3", "$m4", "$m5", "$m6", "$m7", "$m8", "$m9", "$m10", "$m11", "$m12">>

StartTypes == {"org.matrix.msc3381.poll.start", "m.poll.start"}

ResponseTypes == {"org.matrix.msc3381.poll.response", "m.poll.response"}

EndTypes == {"org.matrix.msc3381.poll.end", "m.poll.end"}

Disclosed == "org.matrix.msc3381.poll.disclosed"

Undisclosed == "org.matrix.msc3381.poll.undisclosed"

\* Binary collation of the strings that occur as index keys (answer_hash, user).
Collation == <<"", "@amy:x", "@bob:x", "a1", "a2", "zz">>

Rank(s) == CHOOSE i \in 1..Len(Collation) : Collation[i] = s

Ans(text, id) == [text |-> text, id |-> id]

\* An event as the handlers read it: cls is the nio class, wrap says where the
\* poll content sits in source["content"] ("empty": content is {}; "start": under
\* "org.matrix.msc3381.poll.start"; "ios": under m.new_content /
\* "org.matrix.msc3381.poll.end"; "other": content holds neither), ref is
\* content["m.relates_to"]["event_id"] (for a text message the m.in_reply_to
\* event id), votes the response's answers list, and formatted_body the text
\* message's formatted body cut where the bot's own pill would end.  An event
\* the client holds no session key of has the class MegolmEvent; decrypts_to
\* is then the class of its plaintext ("" for an event sent in the clear), and
\* the other fields describe the plaintext, which the callbacks read only after
\* a decryption.
Event(cls, type, sender, wrap, topic, kind, anss, ref, votes) ==
    [cls |-> cls, type |-> type, event_id |-> "", room_id |-> "", sender |-> sender,
     wrap |-> wrap, topic |-> topic, kind |-> kind, answers |-> anss,
     ref |-> ref, votes |-> votes, formatted_body |-> <<>>, decrypts_to |-> ""]

Encrypted(event) == [event EXCEPT !.cls = "MegolmEvent", !.decrypts_to = event.cls]

StartEvent(type, wrap, topic, kind, anss) ==
    Event("UnknownEvent", type, "@amy:x", wrap, topic, kind, anss, "", <<>>)

ResponseEvent(type, sender, ref, votes) ==
    Event("UnknownEvent", type, sender, "other", "", "", <<>>, ref, votes)

EndEvent(type, ref) ==
    Event("UnknownEvent", type, "@amy:x", "other", "", "", <<>>, ref, <<>>)

NoEvent == Event("", "", "", "empty", "", "", <<>>, "", <<>>)

Lunch == <<Ans("Pizza", "a1"), Ans("Salad", "a2")>>

----------------------------------------------------------------------------
(* storage.py: the three tables.  A table is the sequence of its rows in   *)
(* rowid order; fetchone() is the sequence of at most one row (<<>> is     *)
(* Python's None); SQLite runs with its default foreign_keys=OFF, so only  *)
(* the primary keys are enforced.                                          *)

Range(s) == {s[i] : i \in DOMAIN s}

\* The order in which SQLite returns the rows of SELECT ... WHERE room_id = ?
\* AND reference_id = ?: it searches the primary-key index, whose third column
\* is column (answer_hash for answers, user for responses).
IndexOrder(rows, column) ==
    [i \in 1..Cardinality(rows) |->
        CHOOSE x \in rows :
            Cardinality({y \in rows : Rank(y[column]) < Rank(x[column])}) = i - 1]

HasPoll(tbl, room_id, event_id) ==
    \E i \in DOMAIN tbl : tbl[i].room_id = room_id /\ tbl[i].event_id = event_id

create_poll(tbl, room_id, event_id, topic, kind) ==
    Append(tbl, [room_id |-> room_id, event_id |-> event_id, topic |-> topic,
                 kind |-> kind, reply_event_id |-> None])

get_poll(tbl, room_id, event_id) ==
    LET Match(row) == row.room_id = room_id /\ row.event_id = event_id
        found == SelectSeq(tbl, Match)
    IN  IF found = <<>> THEN <<>> ELSE <<found[1]>>

\* A lookup that takes any stored poll for the one asked for: with it a
\* response to an unknown poll is stored, which C3 excludes.
get_some_poll(tbl, room_id, event_id) ==
    IF tbl = <<>> THEN <<>> ELSE <<tbl[1]>>

get_reply_event(tbl, room_id, event_id) ==
    get_poll(tbl, room_id, event_id)

\* UPDATE polls SET reply_event_id = ? WHERE room_id = ?: the polls of the room
\* that already had an id would get another, which C14 excludes.
update_reply_event_id_in_room(tbl, room_id, event_id, reply_event_id) ==
    [i \in DOMAIN tbl |->
        IF tbl[i].room_id = room_id
        THEN [tbl[i] EXCEPT !.reply_event_id = reply_event_id]
        ELSE tbl[i]]

update_reply_event_id_in_poll(tbl, room_id, event_id, reply_event_id) ==
    [i \in DOMAIN tbl |->
        IF tbl[i].room_id = room_id /\ tbl[i].event_id = event_id
        THEN [tbl[i] EXCEPT !.reply_event_id = reply_event_id]
        ELSE tbl[i]]

\* DELETE ... WHERE reference_id = ?: the rows of a poll with the same event
\* id in another room would go too, which C32 excludes.
DeleteWhereReference(tbl, room_id, event_id) ==
    LET Keep(row) == row.reference_id # event_id
    IN  SelectSeq(tbl, Keep)

DeleteWhere(tbl, room_id, event_id) ==
    LET Keep(row) == ~(row.room_id = room_id /\ row.reference_id = event_id)
    IN  SelectSeq(tbl, Keep)

\* The first DELETE alone, the answers and responses left to a cascade that
\* SQLite does not run: C31 excludes it.
delete_poll_row(db, room_id, event_id) ==
    LET KeepPoll(row) == ~(row.room_id = room_id /\ row.event_id = event_id)
    IN  [polls     |-> SelectSeq(db.polls, KeepPoll),
         answers   |-> db.answers,
         responses |-> db.responses]

\* delete_poll issues three DELETE statements: polls, answers, responses.
delete_poll(db, room_id, event_id) ==
    LET KeepPoll(row) == ~(row.room_id = room_id /\ row.event_id = event_id)
    IN  [polls     |-> SelectSeq(db.polls, KeepPoll),
         answers   |-> DeleteWhere(db.answers, room_id, event_id),
         responses |-> DeleteWhere(db.responses, room_id, event_id)]

HasAnswer(tbl, answer_hash, room_id, reference_id) ==
    \E i \in DOMAIN tbl : /\ tbl[i].room_id = room_id
                          /\ tbl[i].reference_id = reference_id
                          /\ tbl[i].answer_hash = answer_hash

add_answer(tbl, answer, answer_hash, room_id, reference_id) ==
    Append(tbl, [answer |-> answer, answer_hash |-> answer_hash,
                 room_id |-> room_id, reference_id |-> reference_id])

get_answers(tbl, room_id, reference_id) ==
    LET rows == {r \in Range(tbl) : r.room_id = room_id /\ r.reference_id = reference_id}
    IN  IndexOrder(rows, "answer_hash")

get_responses(tbl, room_id, reference_id) ==
    LET rows == {r \in Range(tbl) : r.room_id = room_id /\ r.reference_id = reference_id}
    IN  IndexOrder(rows, "user")

\* INSERT ... ON CONFLICT DO NOTHING: the first response of a user would stay,
\* which C2 excludes.
create_or_keep_response(tbl, response, user, room_id, reference_id) ==
    IF \E i \in DOMAIN tbl : /\ tbl[i].user = user
                             /\ tbl[i].room_id = room_id
                             /\ tbl[i].reference_id = reference_id
    THEN tbl
    ELSE Append(tbl, [response |-> response, user |-> user,
                      room_id |-> room_id, reference_id |-> reference_id])

\* INSERT ... ON CONFLICT (user, room_id, reference_id) DO UPDATE SET response = ?
create_or_update_response(tbl, response, user, room_id, reference_id) ==
    LET Same(row) == /\ row.user = user
                     /\ row.room_id = room_id
                     /\ row.reference_id = reference_id
    IN  IF \E i \in DOMAIN tbl : Same(tbl[i])
        THEN [i \in DOMAIN tbl |->
                 IF Same(tbl[i]) THEN [tbl[i] EXCEPT !.response = response] ELSE tbl[i]]
        ELSE Append(tbl, [response |-> response, user |-> user,
                          room_id |-> room_id, reference_id |-> reference_id])

----------------------------------------------------------------------------
(* The result renderer *)

make_pill(user_id) ==
    "<a href=\"https://matrix.to/#/" \o user_id \o "\">" \o user_id \o "</a>"

RECURSIVE Flatten(_)
Flatten(ss) == IF ss = <<>> THEN <<>> ELSE Head(ss) \o Flatten(Tail(ss))

\* The sequence as it is: with it the buckets of the Lunch trace would stand
\* in the order the store returns the answers, which C8 excludes.
Unreversed(s) == s

Reversed(s) == [i \in 1..Len(s) |-> s[Len(s) + 1 - i]]

Tally(label, topic, lines) == [label |-> label, topic |-> topic, lines |-> lines]

Rendered(exc, message) == [exc |-> exc, message |-> message]

NoMessage == Tally("", "", <<>>)

\* A voter list that puts the chosen answer's hash and the answers after the
\* voters: C10 excludes it.
_get_formatted_closed_poll_results_with_answers(db, room_id, reference_id, is_final) ==
    LET poll == get_poll(db.polls, room_id, reference_id)
        rows == get_responses(db.responses, room_id, reference_id)
        anss == get_answers(db.answers, room_id, reference_id)
        data == [i \in DOMAIN rows |-> make_pill(rows[i].user)]
                \o [i \in DOMAIN anss |-> anss[i].answer] \o <<"">>
    IN  IF poll = <<>> THEN Rendered("TypeError", NoMessage)
        ELSE Rendered("", Tally(IF is_final THEN "Final voters for poll"
                                              ELSE "Voters for poll",
                                  poll[1].topic, data))

_get_formatted_closed_poll_results(db, room_id, reference_id, is_final) ==
    LET poll == get_poll(db.polls, room_id, reference_id)
        rows == get_responses(db.responses, room_id, reference_id)
        data == [i \in DOMAIN rows |-> make_pill(rows[i].user)] \o <<"">>
    IN  IF poll = <<>> THEN Rendered("TypeError", NoMessage)
        ELSE Rendered("", Tally(IF is_final THEN "Final voters for poll"
                                              ELSE "Voters for poll",
                                  poll[1].topic, data))

_get_formatted_open_poll_results(db, room_id, reference_id, is_final) ==
    LET poll == get_poll(db.polls, room_id, reference_id)
        rows == get_responses(db.responses, room_id, reference_id)
        anss == get_answers(db.answers, room_id, reference_id)
        known == {anss[i].answer_hash : i \in DOMAIN anss}
        Voters(h) == LET Chose(row) == row.response = h
                         v == SelectSeq(rows, Chose)
                     IN  [i \in DOMAIN v |-> make_pill(v[i].user)]
        Bucket(a) == <<a.answer \o ":">> \o Voters(a.answer_hash) \o <<"">>
        rev == Reversed(anss)
        data == Flatten([i \in DOMAIN rev |-> Bucket(rev[i])])
    IN  IF \E i \in DOMAIN rows : rows[i].response \notin known
        THEN Rendered("KeyError", NoMessage)
        ELSE IF poll = <<>> THEN Rendered("TypeError", NoMessage)
        ELSE Rendered("", Tally(IF is_final THEN "Final poll results for"
                                              ELSE "Poll results for",
                                  poll[1].topic, data))

get_formatted_poll_results(db, room_id, reference_id, is_final, kind) ==
    IF kind = Disclosed
    THEN _get_formatted_open_poll_results(db, room_id, reference_id, is_final)
    ELSE _get_formatted_closed_poll_results(db, room_id, reference_id, is_final)

\* data as the one string the code builds: every line ends with "\n".
RECURSIVE Body(_)
Body(lines) == IF lines = <<>> THEN "" ELSE Head(lines) \o "\n" \o Body(Tail(lines))

----------------------------------------------------------------------------
(* The lifecycle handler, Callbacks.unknown.  It works on the record       *)
(* w = [polls, answers, responses, outbox, sent] and returns the record    *)
(* after it together with how it ended: exc names the exception that left  *)
(* the handler ("" when it returned) and result the branch that ended it.  *)

Db(w) == [polls |-> w.polls, answers |-> w.answers, responses |-> w.responses]

Ret(w, result) == [w |-> w, exc |-> "", result |-> result]

Raise(w, exc) == [w |-> w, exc |-> exc, result |-> "raised"]

\* One call of send_text_to_room as the callbacks make it.
Call(room_id, message, reply_to_event_id, edit_event_id) ==
    [room_id |-> room_id, message |-> message,
     reply_to_event_id |-> reply_to_event_id, edit_event_id |-> edit_event_id]

\* A send that goes out twice: C12 excludes it.
send_text_to_room_twice(w, room_id, message, reply_to_event_id, edit_event_id) ==
    [w EXCEPT !.outbox = @ \o <<Call(room_id, message, reply_to_event_id, edit_event_id),
                                Call(room_id, message, reply_to_event_id, edit_event_id)>>]

send_text_to_room(w, room_id, message, reply_to_event_id, edit_event_id) ==
    [w EXCEPT !.outbox = Append(@, Call(room_id, message, reply_to_event_id, edit_event_id))]

\* The loop without its two "continue" tests: answers without an id or a text
\* would be stored too, which C1 excludes.
RECURSIVE AddEveryAnswer(_, _, _, _)
AddEveryAnswer(tbl, anss, room_id, event_id) ==
    IF anss = <<>> THEN [answers |-> tbl, exc |-> ""]
    ELSE LET a == Head(anss)
         IN  IF HasAnswer(tbl, a.id, room_id, event_id)
             THEN [answers |-> tbl, exc |-> "IntegrityError"]
             ELSE AddEveryAnswer(add_answer(tbl, a.text, a.id, room_id, event_id),
                                 Tail(anss), room_id, event_id)

\* for answer in answers: ... self.store.add_answer(...): rows are inserted one
\* statement at a time, a primary-key conflict raises and ends the loop.
RECURSIVE AddAnswers(_, _, _, _)
AddAnswers(tbl, anss, room_id, event_id) ==
    IF anss = <<>> THEN [answers |-> tbl, exc |-> ""]
    ELSE LET a == Head(anss)
         IN  IF a.id = "" \/ a.text = ""
             THEN AddAnswers(tbl, Tail(anss), room_id, event_id)
             ELSE IF HasAnswer(tbl, a.id, room_id, event_id)
             THEN [answers |-> tbl, exc |-> "IntegrityError"]
             ELSE AddAnswers(add_answer(tbl, a.text, a.id, room_id, event_id),
                             Tail(anss), room_id, event_id)

\* A handler that takes the poll and its answers out again when the send
\* returned no event id: C29 excludes it.
AfterSendRollingBack(w, event, send_ok) ==
    IF send_ok
    THEN Ret([w EXCEPT !.sent = @ + 1,
                       !.polls = update_reply_event_id_in_poll(
                                     @, event.room_id, event.event_id, MsgIds[w.sent + 1])],
             "sent")
    ELSE LET db == delete_poll(Db(w), event.room_id, event.event_id)
         IN  Raise([w EXCEPT !.polls = db.polls, !.answers = db.answers],
                   "AttributeError")

\* The reply after the send: res.event_id exists only on a RoomSendResponse.
AfterSend(w, event, send_ok) ==
    IF send_ok
    THEN Ret([w EXCEPT !.sent = @ + 1,
                       !.polls = update_reply_event_id_in_poll(
                                     @, event.room_id, event.event_id, MsgIds[w.sent + 1])],
             "sent")
    ELSE Raise(w, "AttributeError")

\* The start branch without its tests of topic and kind: C18 excludes it.
PollStartUntested(w, room_id, event, send_ok) ==
    IF event.wrap \notin {"start", "ios"} THEN Ret(w, "no content")
    ELSE IF HasPoll(w.polls, event.room_id, event.event_id) THEN Raise(w, "IntegrityError")
    ELSE LET w1 == [w EXCEPT !.polls = create_poll(@, event.room_id, event.event_id,
                                                    event.topic, event.kind)]
             added == AddAnswers(w1.answers, event.answers, event.room_id, event.event_id)
             w2 == [w1 EXCEPT !.answers = added.answers]
             r == get_formatted_poll_results(Db(w2), event.room_id, event.event_id,
                                             FALSE, event.kind)
             w3 == send_text_to_room(w2, room_id, r.message, None, None)
         IN  IF added.exc # "" THEN Raise(w2, added.exc)
             ELSE IF r.exc # "" THEN Raise(w2, r.exc)
             ELSE AfterSend(w3, event, send_ok)

\* A start branch whose INSERT meets no primary key: a second row is written
\* for a stored poll and its tally sent again, which C30 excludes.
PollStartUnkeyed(w, room_id, event, send_ok) ==
    IF event.wrap \notin {"start", "ios"} THEN Ret(w, "no content")
    ELSE IF event.topic = "" THEN Ret(w, "no topic")
    ELSE IF event.kind = "" THEN Ret(w, "no kind")
    ELSE LET w1 == [w EXCEPT !.polls = create_poll(@, event.room_id, event.event_id,
                                                    event.topic, event.kind)]
             r == get_formatted_poll_results(Db(w1), event.room_id, event.event_id,
                                             FALSE, event.kind)
             w2 == send_text_to_room(w1, room_id, r.message, None, None)
         IN  IF r.exc # "" THEN Raise(w1, r.exc)
             ELSE AfterSend(w2, event, send_ok)

PollStart(w, room_id, event, send_ok) ==
    IF event.wrap \notin {"start", "ios"} THEN Ret(w, "no content")
    ELSE IF event.topic = "" THEN Ret(w, "no topic")
    ELSE IF event.kind = "" THEN Ret(w, "no kind")
    ELSE IF HasPoll(w.polls, event.room_id, event.event_id) THEN Raise(w, "IntegrityError")
    ELSE LET w1 == [w EXCEPT !.polls = create_poll(@, event.room_id, event.event_id,
                                                    event.topic, event.kind)]
             added == AddAnswers(w1.answers, event.answers, event.room_id, event.event_id)
             w2 == [w1 EXCEPT !.answers = added.answers]
             r == get_formatted_poll_results(Db(w2), event.room_id, event.event_id,
                                             FALSE, event.kind)
             w3 == send_text_to_room(w2, room_id, r.message, None, None)
         IN  IF added.exc # "" THEN Raise(w2, added.exc)
             ELSE IF r.exc # "" THEN Raise(w2, r.exc)
             ELSE AfterSend(w3, event, send_ok)

PollResponse(w, room_id, event) ==
    IF event.votes = <<>> THEN Raise(w, "IndexError")
    ELSE IF event.ref = "" THEN Ret(w, "no reference id")
    ELSE LET reply_event == get_reply_event(w.polls, event.room_id, event.ref)
             w1 == [w EXCEPT !.responses = create_or_update_response(
                                 @, event.votes[1], event.sender, event.room_id, event.ref)]
             r == get_formatted_poll_results(Db(w1), event.room_id, event.ref,
                                             FALSE, reply_event[1].kind)
         IN  IF reply_event = <<>> THEN Ret(w, "unknown poll")
             ELSE IF r.exc # "" THEN Raise(w1, r.exc)
             ELSE Ret(send_text_to_room(w1, room_id, r.message, None,
                                        reply_event[1].reply_event_id),
                      "edited")

PollEnd(w, room_id, event) ==
    LET reply_event == get_reply_event(w.polls, event.room_id, event.ref)
        r == get_formatted_poll_results(Db(w), event.room_id, event.ref,
                                        TRUE, reply_event[1].kind)
        w1 == send_text_to_room(w, room_id, r.message, None, reply_event[1].reply_event_id)
        db == delete_poll(Db(w1), event.room_id, event.ref)
    IN  IF reply_event = <<>> THEN Ret(w, "unknown poll")
        ELSE IF r.exc # "" THEN Raise(w, r.exc)
        ELSE Ret([w1 EXCEPT !.polls = db.polls, !.answers = db.answers,
                            !.responses = db.responses],
                 "ended")

\* A handler that tests the age of replayed events too: C28 excludes it.
unknown_always_ignoring_old(w, room_id, event, ignore_old, age, send_ok) ==
    IF ~filter_old_messages /\ age > StaleAfter THEN Ret(w, "stale")
    ELSE IF event.type \in StartTypes THEN PollStart(w, room_id, event, send_ok)
    ELSE IF event.type \in ResponseTypes THEN PollResponse(w, room_id, event)
    ELSE IF event.type \in EndTypes THEN PollEnd(w, room_id, event)
    ELSE Ret(w, "unrelated")

\* A handler that knows the legacy type strings alone: C21 excludes it.
unknown_legacy_only(w, room_id, event, ignore_old, age, send_ok) ==
    IF ~filter_old_messages /\ ignore_old /\ age > StaleAfter THEN Ret(w, "stale")
    ELSE IF event.type = "org.matrix.msc3381.poll.start"
         THEN PollStart(w, room_id, event, send_ok)
    ELSE IF event.type = "org.matrix.msc3381.poll.response"
         THEN PollResponse(w, room_id, event)
    ELSE IF event.type = "org.matrix.msc3381.poll.end" THEN PollEnd(w, room_id, event)
    ELSE Ret(w, "unrelated")

\* age: datetime.now() minus the event's server timestamp, in seconds.
unknown(w, room_id, event, ignore_old, age, send_ok) ==
    IF ~filter_old_messages /\ ignore_old /\ age > StaleAfter THEN Ret(w, "stale")
    ELSE IF event.type \in StartTypes THEN PollStart(w, room_id, event, send_ok)
    ELSE IF event.type \in ResponseTypes THEN PollResponse(w, room_id, event)
    ELSE IF event.type \in EndTypes THEN PollEnd(w, room_id, event)
    ELSE Ret(w, "unrelated")

----------------------------------------------------------------------------
(* The history recovery coordinator, Callbacks.message *)

\* A prefix that any message opens with, mention or not: C22 excludes it.
any_opening == "stats"

\* make_pill(self.client.user).split('>')[0]
my_pill == "<a href=\"https://matrix.to/#/" \o BotUser \o "\""

TextMessage(sender, formatted_body, reply_to) ==
    [Event("RoomMessageText", "m.room.message", sender, "other", "", "", <<>>,
           reply_to, <<>>) EXCEPT !.formatted_body = formatted_body]

\* A predicate that takes every poll start for the poll asked for: C20
\* excludes it.
event_related_or_start(event, event_id) ==
    IF event.cls # "UnknownEvent" THEN FALSE
    ELSE IF event.type \in StartTypes THEN TRUE
    ELSE IF event.type \in ResponseTypes \cup EndTypes THEN event.ref = event_id
    ELSE FALSE

event_related_to_poll(event, event_id) ==
    IF event.cls # "UnknownEvent" THEN FALSE
    ELSE IF event.type \in StartTypes THEN event.event_id = event_id
    ELSE IF event.type \in ResponseTypes \cup EndTypes THEN event.ref = event_id
    ELSE FALSE

\* A warning that is never a reply: C23 excludes it.
send_plain_warning_message(w, room_id, text, reply_event) ==
    send_text_to_room(w, room_id, Tally(text, "", <<>>), None, None)

send_warning_message(w, room_id, text, reply_event) ==
    IF reply_event # None /\ reply_event # ""
    THEN send_text_to_room(w, room_id, Tally(text, "", <<>>), reply_event, None)
    ELSE send_text_to_room(w, room_id, Tally(text, "", <<>>), None, None)

\* client.room_get_event: the event of the room with that id, <<>> for an error.
room_get_event(tl, event_id) ==
    LET Is(e) == e.event_id = event_id
        found == SelectSeq(tl, Is)
    IN  IF found = <<>> THEN <<>> ELSE <<found[1]>>

\* The calls Callbacks.message makes on the client besides its sends: how many
\* room_get_event, for request_room_key and decrypt_megolm_event whether each
\* call went through, and for room_messages the tokens it asked pages from.
Calls(got, keys, decrypts, pages) ==
    [room_get_event |-> got, request_room_key |-> keys,
     decrypt_megolm_event |-> decrypts, room_messages |-> pages]

NoCalls == Calls(0, <<>>, <<>>, <<>>)

\* client.olm.decrypt_megolm_event(poll_event, room_id): the plaintext event.
decrypt_megolm_event(event) ==
    [event EXCEPT !.cls = event.decrypts_to, !.decrypts_to = ""]

\* Pages whose events come oldest first: C27 excludes them.
room_messages_forwards(tl, start, held) ==
    LET n == IF start < PageSize THEN start ELSE PageSize
        Read(e) == IF held /\ e.cls = "MegolmEvent" THEN decrypt_megolm_event(e) ELSE e
    IN  [chunk |-> [i \in 1..n |-> Read(tl[start - n + i])],
         start |-> start, end |-> start - n]

\* client.room_messages(room_id, start), backwards: tokens are timeline
\* positions; the chunk holds the PageSize events before start, newest first,
\* and end = start once nothing is older.  The client decrypts the events of
\* the chunk when it holds the session key (held).
room_messages(tl, start, held) ==
    LET n == IF start < PageSize THEN start ELSE PageSize
        Read(e) == IF held /\ e.cls = "MegolmEvent" THEN decrypt_megolm_event(e) ELSE e
    IN  [chunk |-> [i \in 1..n |-> Read(tl[start + 1 - i])],
         start |-> start, end |-> start - n]

\* for ev in resp.chunk: collect the related events, break at the poll start.
RECURSIVE ScanChunk(_, _, _)
ScanChunk(chunk, event_id, event_history) ==
    IF chunk = <<>> THEN [event_history |-> event_history, poll_start_found |-> FALSE]
    ELSE LET ev == Head(chunk)
         IN  IF event_related_to_poll(ev, event_id)
             THEN IF ev.type \in StartTypes
                  THEN [event_history |-> Append(event_history, ev),
                        poll_start_found |-> TRUE]
                  ELSE ScanChunk(Tail(chunk), event_id, Append(event_history, ev))
             ELSE ScanChunk(Tail(chunk), event_id, event_history)

\* A walk that goes on to the end of the history after the poll start was
\* found: C25 excludes it.
RECURSIVE WalkToTheEnd(_, _, _, _, _, _)
WalkToTheEnd(tl, end, held, event_id, event_history, pages) ==
    LET resp == room_messages(tl, end, held)
        scan == ScanChunk(resp.chunk, event_id, event_history)
    IN  IF resp.start = resp.end
        THEN [event_history |-> scan.event_history,
              poll_start_found |-> scan.poll_start_found,
              pages |-> Append(pages, end)]
        ELSE WalkToTheEnd(tl, resp.end, held, event_id, scan.event_history,
                          Append(pages, end))

\* while(resp.start != resp.end and not poll_start_found): the first pass always
\* runs, resp.start being "" before it; pages lists the tokens asked from.
RECURSIVE Walk(_, _, _, _, _, _)
Walk(tl, end, held, event_id, event_history, pages) ==
    LET resp == room_messages(tl, end, held)
        scan == ScanChunk(resp.chunk, event_id, event_history)
    IN  IF scan.poll_start_found \/ resp.start = resp.end
        THEN [event_history |-> scan.event_history,
              poll_start_found |-> scan.poll_start_found,
              pages |-> Append(pages, end)]
        ELSE Walk(tl, resp.end, held, event_id, scan.event_history, Append(pages, end))

Out(w, result, event_history, calls) ==
    [w |-> w, exc |-> "", result |-> result, replay |-> event_history, calls |-> calls]

Readable(w, poll_event, result, keys, decrypts) ==
    [w |-> w, poll_event |-> poll_event, result |-> result,
     keys |-> keys, decrypts |-> decrypts]

\* The two try blocks without their return statements: after a failure the
\* coordinator goes on with the event it has, which C24 excludes.
TryKeysAndGoOn(w, room_id, event_id, poll_event, key_ok, decrypt_ok) ==
    IF poll_event.cls # "MegolmEvent" THEN Readable(w, poll_event, "", <<>>, <<>>)
    ELSE IF ~key_ok
    THEN Readable(send_text_to_room(
                      w, room_id,
                      Tally("Unable to get keys for this poll. Please create a new one",
                            "", <<>>),
                      event_id, None),
                  poll_event, "", <<FALSE>>, <<>>)
    ELSE IF ~decrypt_ok
    THEN Readable(send_text_to_room(
                      w, room_id,
                      Tally("Unable to decrypt this poll. Please create a new one",
                            "", <<>>),
                      None, None),
                  poll_event, "", <<TRUE>>, <<FALSE>>)
    ELSE Readable(w, decrypt_megolm_event(poll_event), "", <<TRUE>>, <<TRUE>>)

\* if type(poll_event) is MegolmEvent: one request for the key, then one
\* decryption; result names the warning the coordinator returned after, ""
\* when it goes on with poll_event.  key_ok says whether the key request went
\* through and decrypt_ok whether the decryption after it did.
TryKeys(w, room_id, event_id, poll_event, key_ok, decrypt_ok) ==
    IF poll_event.cls # "MegolmEvent" THEN Readable(w, poll_event, "", <<>>, <<>>)
    ELSE IF ~key_ok
    THEN Readable(send_warning_message(
                      w, room_id,
                      "Unable to get keys for this poll. Please create a new one",
                      event_id),
                  poll_event, "no keys", <<FALSE>>, <<>>)
    ELSE IF ~decrypt_ok
    THEN Readable(send_warning_message(
                      w, room_id,
                      "Unable to decrypt this poll. Please create a new one", None),
                  poll_event, "undecryptable", <<TRUE>>, <<FALSE>>)
    ELSE Readable(w, decrypt_megolm_event(poll_event), "", <<TRUE>>, <<TRUE>>)

\* Everything of Callbacks.message up to the replay loop; replay is the
\* reversed event_history the loop then feeds to unknown.
message(w, room_id, event, age, sync_token, key_ok, decrypt_ok) ==
    LET event_id == event.ref
        fetched == room_get_event(timeline[room_id], event_id)
        tried == TryKeys(w, room_id, event_id, fetched[1], key_ok, decrypt_ok)
        poll_event == tried.poll_event
        reply_event == get_reply_event(tried.w.polls, room_id, poll_event.event_id)
        walk == Walk(timeline[room_id], sync_token, fetched[1].cls = "MegolmEvent",
                     poll_event.event_id, <<>>, <<>>)
    IN  IF event.sender = BotUser THEN Out(w, "own message", <<>>, NoCalls)
        ELSE IF ~filter_old_messages /\ age > StaleAfter THEN Out(w, "stale", <<>>, NoCalls)
        ELSE IF event.formatted_body = <<>> \/ Head(event.formatted_body) # my_pill
             THEN Out(w, "no mention", <<>>, NoCalls)
        ELSE IF event_id = "" THEN Out(w, "no reply", <<>>, NoCalls)
        ELSE IF fetched = <<>> THEN Out(w, "fetch error", <<>>, Calls(1, <<>>, <<>>, <<>>))
        ELSE IF tried.result # ""
             THEN Out(tried.w, tried.result, <<>>,
                      Calls(1, tried.keys, tried.decrypts, <<>>))
        ELSE IF poll_event.cls # "UnknownEvent"
             THEN Out(send_warning_message(tried.w, room_id,
                                           "This is not a poll, but a " \o poll_event.type
                                               \o ", not unknown",
                                           event_id),
                      "not unknown", <<>>, Calls(1, tried.keys, tried.decrypts, <<>>))
        ELSE IF poll_event.type \notin StartTypes
             THEN Out(send_warning_message(tried.w, room_id,
                                           "This is not a poll, but a " \o poll_event.type,
                                           event_id),
                      "not a poll", <<>>, Calls(1, tried.keys, tried.decrypts, <<>>))
        ELSE IF reply_event # <<>>
             THEN Out(send_warning_message(
                          tried.w, room_id,
                          "This statistics for this poll has already been created.",
                          reply_event[1].reply_event_id),
                      "already tracked", <<>>, Calls(1, tried.keys, tried.decrypts, <<>>))
        ELSE Out(tried.w, "replay", Reversed(walk.event_history),
                 Calls(1, tried.keys, tried.decrypts, walk.pages))

----------------------------------------------------------------------------
(* The inputs: what the room's members post and when the bot sees it *)

Legacy(types) == CHOOSE t \in types : \E i \in 1..3 : t = "org.matrix.msc3381.poll."
                                          \o <<"start", "response", "end">>[i]

Stable(types) == CHOOSE t \in types : t # Legacy(types)

PostedStarts ==
    { StartEvent(Legacy(StartTypes), "start", "Lunch?", Disclosed, Lunch),
      StartEvent(Stable(StartTypes), "ios", "Lunch?", Undisclosed,
                 <<Ans("Pizza", "a2"), Ans("Salad", "a1")>>),
      StartEvent(Legacy(StartTypes), "start", "Lunch?", Disclosed,
                 <<Ans("Salad", "a2"), Ans("Pizza", ""), Ans("", "a1"), Ans("Pizza", "a1")>>),
      StartEvent(Legacy(StartTypes), "start", "Lunch?", Disclosed,
                 <<Ans("Pizza", "a1"), Ans("Salad", "a1")>>),
      StartEvent(Legacy(StartTypes), "start", "", Disclosed, Lunch),
      StartEvent(Legacy(StartTypes), "start", "Lunch?", "", Lunch) }

\* The ids a response or an end may name: the poll starts of the room.
StartIds(room_id) ==
    {timeline[room_id][i].event_id : i \in {j \in DOMAIN timeline[room_id] :
                                            timeline[room_id][j].type \in StartTypes}}

PostedResponses(room_id) ==
    { ResponseEvent(Legacy(ResponseTypes), "@bob:x", "", <<"a1">>) }
    \cup UNION { { ResponseEvent(Legacy(ResponseTypes), "@bob:x", ref, <<"a1">>),
                   ResponseEvent(Legacy(ResponseTypes), "@bob:x", ref, <<"a2">>),
                   ResponseEvent(Stable(ResponseTypes), "@amy:x", ref, <<"a2", "a1">>),
                   ResponseEvent(Legacy(ResponseTypes), "@amy:x", ref, <<"zz">>),
                   ResponseEvent(Legacy(ResponseTypes), "@bob:x", ref, <<>>) }
                 : ref \in StartIds(room_id) }

PostedEnds(room_id) ==
    { EndEvent(Stable(EndTypes), "") }
    \cup { EndEvent(Legacy(EndTypes), ref) : ref \in StartIds(room_id) }

PostedOthers ==
    { Event("UnknownEvent", "m.reaction", "@bob:x", "other", "", "", <<>>, "", <<>>) }

Posted(room_id) ==
    PostedStarts \cup PostedResponses(room_id) \cup PostedEnds(room_id) \cup PostedOthers

Ages == {StaleAfter, StaleAfter + 1}

\* The text messages: what is posted, and how old it is when it arrives.
PostedMessages(room_id) ==
    { <<TextMessage(BotUser, <<my_pill, " stats">>, EventIds[1]), StaleAfter>>,
      <<TextMessage("@bob:x", <<"stats">>, EventIds[1]), StaleAfter>>,
      <<TextMessage("@bob:x", <<my_pill, " stats">>, ""), StaleAfter>>,
      <<TextMessage("@bob:x", <<my_pill, " stats">>, EventIds[1]), StaleAfter + 1>> }
    \cup { <<TextMessage("@bob:x", <<my_pill, " stats">>, EventIds[i]), StaleAfter>>
           : i \in 1..(Len(timeline[room_id]) + 1) }

\* The positions client.loaded_sync_token can have when a message arrives: the
\* bot was last started at some point since the token was last read.
SyncTokens(room_id, posted) ==
    IF posted[1].sender # BotUser /\ posted[1].formatted_body[1] = my_pill
       /\ posted[1].ref # "" /\ (filter_old_messages \/ posted[2] <= StaleAfter)
    THEN loaded_sync_token[room_id]..Len(timeline[room_id])
    ELSE {loaded_sync_token[room_id]}

----------------------------------------------------------------------------
(* The state machine *)

World == [polls |-> polls, answers |-> answers, responses |-> responses,
          outbox |-> outbox, sent |-> sent]

\* age is the event's age when the handler read the clock, calls the client
\* calls the handler made besides its sends.
Invocation(handler, event, mode, age, calls, r) ==
    [handler |-> handler, event |-> event, mode |-> mode, age |-> age, calls |-> calls,
     polls |-> polls, answers |-> answers, responses |-> responses,
     outbox |-> outbox, sent |-> sent, exc |-> r.exc, result |-> r.result]

Apply(w) ==
    /\ polls' = w.polls
    /\ answers' = w.answers
    /\ responses' = w.responses
    /\ outbox' = w.outbox
    /\ sent' = w.sent

TotalEvents == LET RECURSIVE Sum(_)
                   Sum(S) == IF S = {} THEN 0
                             ELSE LET x == CHOOSE x \in S : TRUE
                                  IN  Len(timeline[x]) + Sum(S \ {x})
               IN  Sum(Rooms)

\* The events of a room as the server numbers them.
History(room_id, posted) ==
    [i \in DOMAIN posted |-> [posted[i] EXCEPT !.event_id = EventIds[i],
                                               !.room_id = room_id]]

InitIn(rooms, posted, inputs, msgs, filtering) ==
    /\ polls = <<>>
    /\ answers = <<>>
    /\ responses = <<>>
    /\ outbox = <<>>
    /\ sent = 0
    /\ timeline = [r \in Rooms |-> IF r \in rooms THEN History(r, posted) ELSE <<>>]
    /\ loaded_sync_token = [r \in Rooms |-> Len(timeline[r])]
    /\ joined = rooms
    /\ filter_old_messages = filtering
    /\ replay = <<>>
    /\ requests = 0
    /\ redelivered = 0
    /\ budget = [inputs |-> inputs, requests |-> msgs]
    /\ recovered = {}
    /\ closed = {}
    /\ run = [w |-> World, events |-> <<>>, sends |-> <<>>]
    /\ last = Invocation("none", NoEvent, "live", 0, NoCalls, Ret(World, "none"))

Init == InitIn({"!r1"}, <<>>, MaxEvents, MaxRequests - 1, FALSE)

\* A member posts an event and the sync loop hands it to Callbacks.unknown.
Deliver(room_id, posted, age, send_ok) ==
    /\ replay = <<>>
    /\ TotalEvents + requests + redelivered < budget.inputs
    /\ LET event == [posted EXCEPT !.event_id = EventIds[Len(timeline[room_id]) + 1],
                                   !.room_id = room_id]
           r == unknown(World, room_id, event, TRUE, age, send_ok)
       IN  /\ timeline' = [timeline EXCEPT ![room_id] = Append(@, event)]
           /\ Apply(r.w)
           /\ closed' = IF r.result = "ended"
                        THEN closed \cup {<<event.room_id, event.ref>>}
                        ELSE closed
           /\ last' = Invocation("unknown", event, "live", age, NoCalls, r)
    /\ UNCHANGED <<loaded_sync_token, joined, filter_old_messages, replay, requests,
                   redelivered, budget, recovered, run>>

\* The sync loop hands Callbacks.unknown an event of the room a second time:
\* the bot was restarted without a stored sync token, or has just joined.
Redeliver(room_id, i, age, send_ok) ==
    /\ replay = <<>>
    /\ redelivered < MaxRedeliveries
    /\ TotalEvents + requests + redelivered < budget.inputs
    /\ timeline[room_id][i].cls = "UnknownEvent"
    /\ LET event == timeline[room_id][i]
           r == unknown(World, room_id, event, TRUE, age, send_ok)
       IN  /\ Apply(r.w)
           /\ closed' = IF r.result = "ended"
                        THEN closed \cup {<<event.room_id, event.ref>>}
                        ELSE closed
           /\ last' = Invocation("unknown", event, "live", age, NoCalls, r)
    /\ redelivered' = redelivered + 1
    /\ UNCHANGED <<timeline, loaded_sync_token, joined, filter_old_messages, replay,
                   requests, budget, recovered, run>>

\* A text message reaches Callbacks.message, which runs up to its replay loop;
\* token is the sync position the client loaded when it was last started.
Request(room_id, posted, age, token, key_ok, decrypt_ok) ==
    /\ replay = <<>>
    /\ requests < budget.requests
    /\ TotalEvents + requests + redelivered < budget.inputs
    /\ loaded_sync_token' = [loaded_sync_token EXCEPT ![room_id] = token]
    /\ LET event == [posted EXCEPT !.room_id = room_id,
                                   !.event_id = TextIds[requests + 1]]
           r == message(World, room_id, event, age, token, key_ok, decrypt_ok)
       IN  /\ Apply(r.w)
           /\ replay' = r.replay
           /\ run' = IF r.result = "replay"
                     THEN [w |-> r.w, events |-> r.replay, sends |-> <<>>]
                     ELSE run
           /\ last' = Invocation("message", event, "live", age, r.calls, r)
    /\ requests' = requests + 1
    /\ UNCHANGED <<timeline, joined, filter_old_messages, redelivered, budget, recovered,
                   closed>>

\* for ev in event_history: await self.unknown(room, ev, ignore_old = False);
\* an exception leaves the loop and the handler.
Replay(age, send_ok) ==
    /\ replay # <<>>
    /\ LET event == Head(replay)
           r == unknown(World, event.room_id, event, FALSE, age, send_ok)
       IN  /\ Apply(r.w)
           /\ replay' = IF r.exc = "" THEN Tail(replay) ELSE <<>>
           /\ run' = [run EXCEPT !.sends = Append(@, r.exc # "AttributeError")]
           /\ recovered' = IF event.type \in StartTypes /\ r.result = "sent"
                           THEN recovered \cup {<<event.room_id, event.event_id>>}
                           ELSE recovered
           /\ closed' = IF r.result = "ended"
                        THEN closed \cup {<<event.room_id, event.ref>>}
                        ELSE closed
           /\ last' = Invocation("unknown", event, "replay", age, NoCalls, r)
    /\ UNCHANGED <<timeline, loaded_sync_token, joined, filter_old_messages, requests,
                   redelivered, budget>>

Next ==
    \/ \E room_id \in joined : \E posted \in Posted(room_id) :
           \E age \in Ages : \E send_ok \in BOOLEAN :
               Deliver(room_id, posted, age, send_ok)
    \/ \E room_id \in joined : \E i \in DOMAIN timeline[room_id] :
           \E age \in Ages : \E send_ok \in BOOLEAN :
               Redeliver(room_id, i, age, send_ok)
    \/ \E room_id \in joined : \E posted \in PostedMessages(room_id) :
           \E token \in SyncTokens(room_id, posted) :
               \E key_ok \in BOOLEAN : \E decrypt_ok \in BOOLEAN :
                   Request(room_id, posted[1], posted[2], token, key_ok, decrypt_ok)
    \/ \E age \in Ages : \E send_ok \in BOOLEAN : Replay(age, send_ok)

Spec == Init /\ [][Next]_vars

\* Poll families that ran while the bot was not in the room or not running.
Missed ==
    { <<StartEvent(Legacy(StartTypes), "start", "Lunch?", Disclosed, Lunch),
        ResponseEvent(Legacy(ResponseTypes), "@bob:x", EventIds[1], <<"a1">>),
        EndEvent(Legacy(EndTypes), EventIds[1])>>,
      <<StartEvent(Legacy(StartTypes), "start", "Lunch?", Disclosed, Lunch),
        ResponseEvent(Legacy(ResponseTypes), "@amy:x", EventIds[1], <<"zz">>),
        ResponseEvent(Legacy(ResponseTypes), "@bob:x", EventIds[1], <<"a1">>)>>,
      <<StartEvent(Stable(StartTypes), "ios", "Lunch?", Undisclosed,
                   <<Ans("Pizza", "a2"), Ans("Salad", "a1")>>),
        StartEvent(Legacy(StartTypes), "start", "Lunch?", Disclosed, Lunch),
        ResponseEvent(Legacy(ResponseTypes), "@bob:x", EventIds[2], <<"a2">>),
        ResponseEvent(Stable(ResponseTypes), "@amy:x", EventIds[1], <<"a2", "a1">>)>>,
      <<Encrypted(StartEvent(Legacy(StartTypes), "start", "Lunch?", Disclosed, Lunch)),
        Encrypted(ResponseEvent(Legacy(ResponseTypes), "@bob:x", EventIds[1], <<"a1">>)),
        Encrypted(TextMessage("@amy:x", <<"vote!">>, ""))>> }

\* The bot starts with an empty store in a room that already has a history.
InitRecovery ==
    \E posted \in Missed : \E filtering \in BOOLEAN :
        InitIn({"!r1"}, posted, Len(posted) + MaxRequests, MaxRequests, filtering)

SpecRecovery == InitRecovery /\ [][Next]_vars

\* The bot is in two rooms, whose events carry the same ids.
InitRooms == InitIn(Rooms, <<>>, MaxEvents, MaxRequests - 1, FALSE)

SpecRooms == InitRooms /\ [][Next]_vars

----------------------------------------------------------------------------
(* Properties.  last holds the store and the outbox as they were before    *)
(* the latest invocation, so the effect of a handler is a predicate on one *)
(* state.                                                                  *)

Handled(types) == last.handler = "unknown" /\ last.event.type \in types

StoreUnchanged ==
    polls = last.polls /\ answers = last.answers /\ responses = last.responses

NewCalls == SubSeq(outbox, Len(last.outbox) + 1, Len(outbox))

PollRows(tbl, room_id, event_id) ==
    LET Is(row) == row.room_id = room_id /\ row.event_id = event_id
    IN  SelectSeq(tbl, Is)

FamilyRows(tbl, room_id, reference_id) ==
    LET Is(row) == row.room_id = room_id /\ row.reference_id = reference_id
    IN  SelectSeq(tbl, Is)

Positions(lines, line) == {i \in DOMAIN lines : lines[i] = line}

Labels(room_id, reference_id) ==
    {row.answer \o ":" : row \in Range(FamilyRows(answers, room_id, reference_id))}

\* The answer label a line of a disclosed tally stands under ("" for none).
HeadingOf(lines, i, labels) ==
    LET above == {j \in 1..(i - 1) : lines[j] \in labels}
    IN  IF above = {} THEN ""
        ELSE lines[CHOOSE j \in above : \A k \in above : k <= j]

\* A PollStart with poll content, a topic and a kind whose poll is not stored.
C1_Case ==
    /\ Handled(StartTypes)
    /\ last.event.wrap \in {"start", "ios"}
    /\ last.event.topic # "" /\ last.event.kind # ""
    /\ ~HasPoll(last.polls, last.event.room_id, last.event.event_id)

\* C1 as stated: after the handler has run on a valid PollStart of a poll not
\* yet stored, the store holds exactly one Poll of that key and one Answer row
\* for every answer the event declares, and exactly one send and no edit was made.
C1_EveryAnswerStoredOneSend ==
    C1_Case =>
        LET e == last.event
            rows == FamilyRows(answers, e.room_id, e.event_id)
        IN  /\ Len(PollRows(polls, e.room_id, e.event_id)) = 1
            /\ Len(rows) = Len(e.answers)
            /\ \A i \in DOMAIN e.answers :
                   \E j \in DOMAIN rows : /\ rows[j].answer = e.answers[i].text
                                          /\ rows[j].answer_hash = e.answers[i].id
            /\ Len(NewCalls) = 1
            /\ NewCalls[1].edit_event_id = None

\* The declared answers that carry an id and a text, up to the first of them
\* that repeats the id of an earlier one.
StorableAnswers(anss) ==
    LET Full(a) == a.id # "" /\ a.text # ""
        full == SelectSeq(anss, Full)
        repeats == {i \in DOMAIN full : \E j \in 1..(i - 1) : full[j].id = full[i].id}
    IN  IF repeats = {} THEN [kept |-> full, repeated |-> FALSE]
        ELSE [kept |-> SubSeq(full, 1, (CHOOSE i \in repeats : \A k \in repeats : i <= k) - 1),
              repeated |-> TRUE]

\* C1, amended: when the handler has run on a PollStart with a topic and a kind
\* that it did not drop as stale and whose poll was not stored, the store holds
\* exactly one Poll of that key and, in order, one Answer row for each declared
\* answer that has an id and a text, up to the first that repeats an earlier
\* id; if no id repeats exactly one call to send was made, a new message and no
\* edit, carrying the initial tally, and if one repeats no call was made.
C1_StorableAnswersStoredOneSend ==
    (C1_Case /\ last.result # "stale") =>
        LET e == last.event
            rows == FamilyRows(answers, e.room_id, e.event_id)
            want == StorableAnswers(e.answers)
        IN  /\ Len(PollRows(polls, e.room_id, e.event_id)) = 1
            /\ rows = [i \in DOMAIN want.kept |->
                          [answer |-> want.kept[i].text, answer_hash |-> want.kept[i].id,
                           room_id |-> e.room_id, reference_id |-> e.event_id]]
            /\ polls = Append(last.polls, polls[Len(polls)])
            /\ responses = last.responses
            /\ IF want.repeated
               THEN outbox = last.outbox /\ last.exc = "IntegrityError"
               ELSE /\ Len(NewCalls) = 1
                    /\ NewCalls[1].edit_event_id = None
                    /\ NewCalls[1].reply_to_event_id = None
                    /\ NewCalls[1].room_id = e.room_id
                    /\ NewCalls[1].message.topic = e.topic
                    /\ NewCalls[1].message.label \in {"Poll results for", "Voters for poll"}

\* A start that declares answers without an id or a text has been handled and
\* its tally sent.
C1_Witness ==
    /\ C1_Case /\ last.result = "sent"
    /\ \E i \in DOMAIN last.event.answers : last.event.answers[i].id = ""
    /\ Len(FamilyRows(answers, last.event.room_id, last.event.event_id)) = 2

\* A PollResponse with an answer and a back-reference to a stored poll.
C2_Case ==
    /\ Handled(ResponseTypes) /\ last.result # "stale"
    /\ last.event.votes # <<>> /\ last.event.ref # ""
    /\ HasPoll(last.polls, last.event.room_id, last.event.ref)

SameVoter(row, e) ==
    row.room_id = e.room_id /\ row.reference_id = e.ref /\ row.user = e.sender

\* The tally names every voter of the poll once, in a disclosed poll under the
\* answer whose hash is the voter's stored response.
ReflectsStoredResponses(tally, poll) ==
    \A row \in Range(FamilyRows(responses, poll.room_id, poll.event_id)) :
        LET at == Positions(tally.lines, make_pill(row.user))
        IN  /\ Cardinality(at) = 1
            /\ poll.kind = Disclosed =>
                  \E a \in Range(FamilyRows(answers, poll.room_id, poll.event_id)) :
                      /\ a.answer_hash = row.response
                      /\ HeadingOf(tally.lines, CHOOSE i \in at : TRUE,
                                   Labels(poll.room_id, poll.event_id)) = a.answer \o ":"

\* C2: there is at most one Response row per (room_id, poll event id, user);
\* once a PollResponse on a stored poll has been handled that row holds the
\* answer of this response, every other row is as it was, and a tally rendered
\* from the store, the one the handler sends included, shows each voter under
\* the stored, that is the most recent, response only.
C2_OnlyTheLatestResponse ==
    /\ \A i, j \in DOMAIN responses :
           (/\ responses[i].room_id = responses[j].room_id
            /\ responses[i].reference_id = responses[j].reference_id
            /\ responses[i].user = responses[j].user) => i = j
    /\ C2_Case =>
           \E i \in DOMAIN responses : /\ SameVoter(responses[i], last.event)
                                       /\ responses[i].response = last.event.votes[1]
    /\ \A row \in Range(responses) :
           \/ row \in Range(last.responses)
           \/ C2_Case /\ SameVoter(row, last.event)
    /\ \A poll \in Range(polls) : \A is_final \in BOOLEAN :
           LET r == get_formatted_poll_results(Db(World), poll.room_id, poll.event_id,
                                               is_final, poll.kind)
           IN  r.exc = "" => ReflectsStoredResponses(r.message, poll)
    /\ (C2_Case /\ last.result = "edited") =>
           /\ Len(NewCalls) = 1
           /\ \E poll \in Range(polls) :
                  /\ poll.room_id = last.event.room_id /\ poll.event_id = last.event.ref
                  /\ ReflectsStoredResponses(NewCalls[1].message, poll)

\* A user who had answered a disclosed poll has answered it again, differently.
C2_Witness ==
    /\ C2_Case /\ last.result = "edited"
    /\ \E row \in Range(last.responses) :
           SameVoter(row, last.event) /\ row.response # last.event.votes[1]
    /\ \E poll \in Range(polls) : poll.event_id = last.event.ref /\ poll.kind = Disclosed

\* A PollResponse or PollEnd that names a poll the store does not hold.
C3_Case ==
    /\ Handled(ResponseTypes \cup EndTypes)
    /\ ~HasPoll(last.polls, last.event.room_id, last.event.ref)

\* C3: a PollResponse or PollEnd whose back-reference names a poll that is not
\* in the store, never seen or removed by an earlier PollEnd, changes nothing
\* in the store and causes no send and no edit.
C3_UnknownPollIsNoOp ==
    C3_Case => StoreUnchanged /\ outbox = last.outbox

\* A response arrives for a poll that an earlier PollEnd has removed.
C3_Witness ==
    /\ C3_Case /\ last.event.type \in ResponseTypes /\ last.result = "unknown poll"
    /\ \E i \in DOMAIN timeline[last.event.room_id] :
           LET e == timeline[last.event.room_id][i]
           IN  e.type \in EndTypes /\ e.ref = last.event.ref
    /\ \E i \in DOMAIN outbox : outbox[i].message.label = "Final poll results for"

\* C4 as stated: a PollResponse for a stored poll whose reply_event_id is not
\* set is dropped: no Response is stored, no message is sent, no edit is issued.
C4_ResponseDroppedWithoutReplyId ==
    (/\ Handled(ResponseTypes)
     /\ \E poll \in Range(last.polls) :
            /\ poll.room_id = last.event.room_id /\ poll.event_id = last.event.ref
            /\ poll.reply_event_id = None)
    => StoreUnchanged /\ outbox = last.outbox

\* The ids the server has returned for the messages it accepted.
ReturnedIds == {MsgIds[i] : i \in 1..sent}

NewTallies ==
    {i \in DOMAIN outbox :
        /\ outbox[i].edit_event_id = None
        /\ outbox[i].message.label \in {"Poll results for", "Voters for poll"}}

PollStartsSeen ==
    UNION {{<<r, timeline[r][i].event_id>> :
               i \in {j \in DOMAIN timeline[r] : timeline[r][j].type \in StartTypes}}
           : r \in Rooms}

\* C5 as stated: no poll has more than one new tally message, and every call a
\* PollResponse or PollEnd causes is an edit of the message whose id the
\* PollStart's send returned.
C5_OneMessagePerPollThenEdits ==
    /\ Cardinality(NewTallies) <= Cardinality(PollStartsSeen)
    /\ Handled(ResponseTypes \cup EndTypes) =>
           \A i \in DOMAIN NewCalls :
               /\ NewCalls[i].edit_event_id \in ReturnedIds
               /\ \E poll \in Range(last.polls) :
                      /\ poll.room_id = last.event.room_id
                      /\ poll.event_id = last.event.ref
                      /\ poll.reply_event_id = NewCalls[i].edit_event_id

\* A text message that passed the gate of Callbacks.message: a recent reply
\* of another user that mentions the bot.
Requested ==
    /\ last.handler = "message"
    /\ last.result \notin {"own message", "stale", "no mention", "no reply"}

\* C6 as stated: once a recovery run has created a poll and sent its tally, a
\* further request for the same poll start is rejected as already tracked,
\* changes nothing in the store and starts no replay.
C6_SecondRequestRejected ==
    (Requested /\ <<last.event.room_id, last.event.ref>> \in recovered) =>
        /\ last.result = "already tracked"
        /\ StoreUnchanged
        /\ replay = <<>>

\* Live handling of the events one after the other, each inside the staleness
\* window and with the given outcome of a send; sends is padded with rest.
RECURSIVE LiveHandling(_, _, _, _)
LiveHandling(w, events, sends, rest) ==
    IF events = <<>> THEN w
    ELSE LET ok == IF sends = <<>> THEN rest ELSE Head(sends)
             r == unknown(w, Head(events).room_id, Head(events), TRUE, 0, ok)
         IN  LiveHandling(r.w, Tail(events),
                          IF sends = <<>> THEN <<>> ELSE Tail(sends), rest)

\* C7 as stated: when a recovery run is over, the store and the calls made are
\* those live handling of the collected events, in their order and from the
\* store the run began with, ends with; and Callbacks.message itself changes
\* nothing in the store.
C7_ReplayEqualsLive ==
    /\ last.handler = "message" => StoreUnchanged
    /\ (last.mode = "replay" /\ replay = <<>>) =>
           \E rest \in BOOLEAN : LiveHandling(run.w, run.events, run.sends, rest) = World

\* The trace PollStart("Lunch?", disclosed, Pizza/a1 then Salad/a2),
\* PollResponse(@bob:x, a1), PollEnd, each handled when it arrived and none
\* handed over a second time.
LunchTrace ==
    History("!r1", <<StartEvent(Legacy(StartTypes), "start", "Lunch?", Disclosed, Lunch),
                     ResponseEvent(Legacy(ResponseTypes), "@bob:x", EventIds[1], <<"a1">>),
                     EndEvent(Legacy(EndTypes), EventIds[1])>>)

C8_Case ==
    /\ timeline["!r1"] = LunchTrace
    /\ requests = 0 /\ redelivered = 0
    /\ Len(outbox) = 3

BucketOf(lines, label) ==
    {lines[i] : i \in {j \in DOMAIN lines :
                          lines[j] \notin {"", "Pizza:", "Salad:"}
                          /\ HeadingOf(lines, j, {"Pizza:", "Salad:"}) = label}}

\* C8 as stated: the initial render is labelled "Voters for poll" and its body
\* is "Pizza:\n\n\nSalad:\n\n\n"; after the response Bob stands under "Pizza:"
\* and nobody under "Salad:"; the final edit is labelled "Final poll results
\* for" with the same buckets, and the poll is then gone from the store.
C8_LunchTraceAsStated ==
    C8_Case =>
        /\ outbox[1].message.label = "Voters for poll"
        /\ outbox[1].message.topic = "Lunch?"
        /\ Body(outbox[1].message.lines) = "Pizza:\n\n\nSalad:\n\n\n"
        /\ BucketOf(outbox[2].message.lines, "Pizza:") = {make_pill("@bob:x")}
        /\ BucketOf(outbox[2].message.lines, "Salad:") = {}
        /\ outbox[3].message.label = "Final poll results for"
        /\ outbox[3].message.lines = outbox[2].message.lines
        /\ polls = <<>>

\* C8, amended: the initial render is labelled "Poll results for" and its body
\* is "Salad:\n\nPizza:\n\n"; after the response Bob stands under "Pizza:" and
\* nobody under "Salad:"; the final edit is labelled "Final poll results for"
\* with the same buckets, and the poll, its answers and its responses are then
\* gone from the store.
C8_LunchTrace ==
    C8_Case =>
        /\ outbox[1].message.label = "Poll results for"
        /\ outbox[1].message.topic = "Lunch?"
        /\ Body(outbox[1].message.lines) = "Salad:\n\nPizza:\n\n"
        /\ outbox[1].edit_event_id = None
        /\ outbox[2].message.label = "Poll results for"
        /\ outbox[2].message.topic = "Lunch?"
        /\ Body(outbox[2].message.lines)
               = "Salad:\n\nPizza:\n" \o make_pill("@bob:x") \o "\n\n"
        /\ BucketOf(outbox[2].message.lines, "Pizza:") = {make_pill("@bob:x")}
        /\ BucketOf(outbox[2].message.lines, "Salad:") = {}
        /\ outbox[3].message.label = "Final poll results for"
        /\ outbox[3].message.topic = "Lunch?"
        /\ outbox[3].message.lines = outbox[2].message.lines
        /\ polls = <<>> /\ answers = <<>> /\ responses = <<>>

\* The three events of the trace have been handled and the final edit made.
C8_Witness == C8_Case /\ polls = <<>> /\ last.result = "ended"

\* C9 as stated: the disclosed tally of a stored poll has one bucket for each
\* stored answer, the buckets stand in the reverse of the order in which the
\* answers were inserted, and each names exactly the users whose stored
\* response is that answer's hash.
C9_BucketsInReverseInsertionOrder ==
    \A poll \in Range(polls) :
        LET r == get_formatted_poll_results(Db(World), poll.room_id,
                                            poll.event_id, FALSE, poll.kind)
            inserted == FamilyRows(answers, poll.room_id, poll.event_id)
            labels == Labels(poll.room_id, poll.event_id)
            IsLabel(line) == line \in labels
        IN  (poll.kind = Disclosed /\ r.exc = "") =>
                /\ SelectSeq(r.message.lines, IsLabel)
                       = Reversed([i \in DOMAIN inserted |-> inserted[i].answer \o ":"])
                /\ \A a \in Range(inserted) :
                       {r.message.lines[i] :
                           i \in {j \in DOMAIN r.message.lines :
                                     /\ r.message.lines[j] \notin labels \cup {""}
                                     /\ HeadingOf(r.message.lines, j, labels) = a.answer \o ":"}}
                       = {make_pill(row.user) :
                             row \in {x \in Range(FamilyRows(responses, poll.room_id,
                                                             poll.event_id)) :
                                         x.response = a.answer_hash}}

\* What an undisclosed tally may show: every voter of the poll once, whatever
\* the answer, and no answer.
ListsVotersOnly(tally, room_id, reference_id) ==
    LET voters == {row.user : row \in Range(FamilyRows(responses, room_id, reference_id))}
        texts == {row.answer : row \in Range(FamilyRows(answers, room_id, reference_id))}
    IN  /\ \A u \in voters : Cardinality(Positions(tally.lines, make_pill(u))) = 1
        /\ \A i \in DOMAIN tally.lines :
               tally.lines[i] \in {make_pill(u) : u \in voters} \cup {""}
        /\ tally.label \in {"Voters for poll", "Final voters for poll"}
        /\ tally.label \notin texts /\ tally.topic \notin texts

\* C10: the undisclosed tally of a stored poll, the one sent after a response
\* included, names each user that has a stored response for the poll exactly
\* once, whichever answer the user chose, and holds no answer text.
C10_UndisclosedListsVotersOnly ==
    /\ \A poll \in Range(polls) : \A is_final \in BOOLEAN :
           poll.kind # Disclosed =>
               LET r == get_formatted_poll_results(Db(World), poll.room_id,
                                                   poll.event_id, is_final, poll.kind)
               IN  r.exc = "" /\ ListsVotersOnly(r.message, poll.room_id, poll.event_id)
    /\ \A poll \in Range(polls) :
           (/\ C2_Case /\ last.result = "edited"
            /\ poll.room_id = last.event.room_id /\ poll.event_id = last.event.ref
            /\ poll.kind # Disclosed)
           => ListsVotersOnly(NewCalls[1].message, poll.room_id, poll.event_id)

\* Two users have answered an undisclosed poll, each with another answer.
C10_Witness ==
    \E poll \in Range(polls) :
        /\ poll.kind = Undisclosed
        /\ \E x, y \in Range(FamilyRows(responses, poll.room_id, poll.event_id)) :
               x.user # y.user /\ x.response # y.response
        /\ C2_Case /\ last.result = "edited" /\ last.event.ref = poll.event_id

\* The stored poll a handled PollResponse or PollEnd names, as it was before.
NamedPoll ==
    {poll \in Range(last.polls) :
        poll.room_id = last.event.room_id /\ poll.event_id = last.event.ref}

\* A PollResponse with an answer, or a PollEnd, reached a stored disclosed
\* poll, and a response of that poll, the arriving one included, names an
\* answer id the poll does not have.
C11_Case ==
    /\ Handled(ResponseTypes \cup EndTypes) /\ last.result # "stale"
    /\ last.event.type \in ResponseTypes => last.event.votes # <<>>
    /\ \E poll \in NamedPoll : poll.kind = Disclosed
    /\ LET known == {a.answer_hash :
                        a \in Range(FamilyRows(last.answers, last.event.room_id,
                                               last.event.ref))}
       IN  \/ \E row \in Range(FamilyRows(last.responses, last.event.room_id,
                                          last.event.ref)) :
                  /\ row.response \notin known
                  /\ ~(last.event.type \in ResponseTypes /\ row.user = last.event.sender)
           \/ last.event.type \in ResponseTypes /\ last.event.votes[1] \notin known

\* C11 as stated: when a stored response of a disclosed poll names no stored
\* answer, the handler of the PollResponse or PollEnd still returns, has issued
\* its one call, and the tally it carries has every bucket label and names no
\* user whose response matches no answer.
C11_UnknownAnswerIsOmitted ==
    C11_Case =>
        /\ last.exc = ""
        /\ Len(NewCalls) = 1
        /\ \A a \in Range(FamilyRows(last.answers, last.event.room_id, last.event.ref)) :
               Positions(NewCalls[1].message.lines, a.answer \o ":") # {}

\* C12: handling one event makes at most one call; the call of a PollStart is
\* a send (no edit target), the call of a PollResponse or PollEnd carries as
\* its edit target the reply_event_id stored for the poll, and an event of
\* another type causes no call.
C12_AtMostOneOperationPerEvent ==
    last.handler = "unknown" =>
        /\ Len(NewCalls) <= 1
        /\ (last.event.type \in StartTypes /\ NewCalls # <<>>) =>
               /\ NewCalls[1].edit_event_id = None
               /\ NewCalls[1].reply_to_event_id = None
        /\ (last.event.type \in ResponseTypes \cup EndTypes /\ NewCalls # <<>>) =>
               \E poll \in NamedPoll : NewCalls[1].edit_event_id = poll.reply_event_id
        /\ last.event.type \notin StartTypes \cup ResponseTypes \cup EndTypes =>
               NewCalls = <<>>

\* A start was sent, a response has edited its message, and an event of
\* another type arrived last.
C12_Witness ==
    /\ last.handler = "unknown" /\ last.event.type = "m.reaction"
    /\ Len(outbox) = 2
    /\ outbox[1].edit_event_id = None
    /\ outbox[2].edit_event_id \in ReturnedIds

\* C13 as stated: a poll that a PollEnd has removed is never in the store
\* again, and no PollStart of its key causes another tally message.
C13_ClosedIsTerminal ==
    /\ \A poll \in Range(polls) : <<poll.room_id, poll.event_id>> \notin closed
    /\ (Handled(StartTypes) /\ <<last.event.room_id, last.event.event_id>> \in closed)
           => NewCalls = <<>>

\* C14: a Poll row, once the handler that created it is over, never changes
\* until a PollEnd removes it; a new row comes only from the PollStart of its
\* key, and it holds a reply_event_id only if that handler's one send returned
\* an id, which is the id stored.
C14_ReplyIdWrittenOnce ==
    /\ \A row \in Range(last.polls) :
           \/ row \in Range(polls)
           \/ /\ Handled(EndTypes)
              /\ row.room_id = last.event.room_id /\ row.event_id = last.event.ref
              /\ ~HasPoll(polls, row.room_id, row.event_id)
    /\ \A row \in Range(polls) :
           row \notin Range(last.polls) =>
               /\ Handled(StartTypes)
               /\ row.room_id = last.event.room_id /\ row.event_id = last.event.event_id
               /\ ~HasPoll(last.polls, row.room_id, row.event_id)
               /\ \/ row.reply_event_id = None /\ last.result # "sent"
                  \/ /\ last.result = "sent" /\ Len(NewCalls) = 1
                     /\ row.reply_event_id = MsgIds[sent]
                     /\ \A other \in Range(last.polls) :
                            other.reply_event_id # row.reply_event_id

\* A second poll got its reply id while the first kept the one it had.
C14_Witness ==
    /\ Handled(StartTypes) /\ last.result = "sent"
    /\ Len(polls) = 2 /\ Len(last.polls) = 1
    /\ last.polls[1].reply_event_id # None
    /\ polls[1] = last.polls[1]
    /\ polls[2].reply_event_id \notin {None, polls[1].reply_event_id}

\* C15 as stated, for a poll that has a reply_event_id: the PollEnd handler
\* returns having made exactly one call, the edit of the poll's message with
\* the final tally rendered from the poll, answers and responses as stored
\* before, and no Poll, Answer or Response row of the poll is left.
C15_FinalEditThenDelete ==
    (/\ Handled(EndTypes) /\ last.result # "stale"
     /\ \E poll \in NamedPoll : poll.reply_event_id # None)
    => LET poll == CHOOSE x \in NamedPoll : TRUE
           r == get_formatted_poll_results(
                    [polls |-> last.polls, answers |-> last.answers,
                     responses |-> last.responses],
                    poll.room_id, poll.event_id, TRUE, poll.kind)
       IN  /\ last.exc = ""
           /\ Len(NewCalls) = 1
           /\ NewCalls[1].message = r.message
           /\ NewCalls[1].message.label \in {"Final poll results for",
                                             "Final voters for poll"}
           /\ NewCalls[1].edit_event_id = poll.reply_event_id
           /\ ~HasPoll(polls, poll.room_id, poll.event_id)
           /\ FamilyRows(answers, poll.room_id, poll.event_id) = <<>>
           /\ FamilyRows(responses, poll.room_id, poll.event_id) = <<>>

\* C16 as stated: a PollEnd for a stored poll whose reply_event_id is not set
\* leaves the poll, its answers and its responses in the store and causes no
\* send and no edit.
C16_EndDroppedWithoutReplyId ==
    (Handled(EndTypes) /\ \E poll \in NamedPoll : poll.reply_event_id = None)
    => StoreUnchanged /\ outbox = last.outbox

\* C17 as stated, step by step: whenever the rows of a stored poll that has a
\* reply_event_id are not those of before (the poll is new, or a response of
\* it was written), the latest call carries the tally rendered from the rows
\* as they now are; and so does every edit of the poll's message.
C17_LatestTallyShowsStore ==
    \A poll \in Range(polls) :
        poll.reply_event_id # None =>
            LET r == get_formatted_poll_results(Db(World), poll.room_id,
                                                poll.event_id, FALSE, poll.kind)
                written ==
                    \/ poll \notin Range(last.polls)
                    \/ FamilyRows(responses, poll.room_id, poll.event_id)
                           # FamilyRows(last.responses, poll.room_id, poll.event_id)
                    \/ FamilyRows(answers, poll.room_id, poll.event_id)
                           # FamilyRows(last.answers, poll.room_id, poll.event_id)
                edited ==
                    /\ Handled(ResponseTypes) /\ NewCalls # <<>>
                    /\ last.event.room_id = poll.room_id /\ last.event.ref = poll.event_id
            IN  (written \/ edited) =>
                    /\ r.exc = ""
                    /\ NewCalls # <<>>
                    /\ NewCalls[Len(NewCalls)].message = r.message

\* C18: a PollStart without a question text or without a kind returns without
\* creating a Poll or an Answer and without a call.
C18_StartWithoutTopicOrKindDropped ==
    (Handled(StartTypes) /\ (last.event.topic = "" \/ last.event.kind = ""))
    => /\ StoreUnchanged
       /\ outbox = last.outbox
       /\ last.exc = ""
       /\ ~HasPoll(polls, last.event.room_id, last.event.event_id)
       /\ FamilyRows(answers, last.event.room_id, last.event.event_id) = <<>>

\* A start that declares answers and a kind but no topic arrived, inside the
\* staleness window, in a room that has a poll.
C18_Witness ==
    /\ Handled(StartTypes) /\ last.result = "no topic"
    /\ last.event.kind # "" /\ last.event.answers # <<>>
    /\ polls # <<>>

\* C19 as stated: a PollResponse without a back-reference id or with an empty
\* answers list makes the handler return normally with the store and the
\* outbox as they were; a PollResponse with both, on a stored poll, stores the
\* first element of its answers list.
C19_InvalidResponseDropped ==
    /\ (/\ Handled(ResponseTypes) /\ last.result # "stale"
        /\ (last.event.ref = "" \/ last.event.votes = <<>>))
       => last.exc = "" /\ StoreUnchanged /\ outbox = last.outbox
    /\ C2_Case =>
           \A row \in Range(responses) :
               SameVoter(row, last.event) => row.response = last.event.votes[1]

\* What the membership predicate is to decide, said by cases.
RelatedToPoll(event, event_id) ==
    /\ event.cls = "UnknownEvent"
    /\ \/ event.type \in StartTypes /\ event.event_id = event_id
       \/ event.type \in ResponseTypes \cup EndTypes /\ event.ref = event_id

\* The events the predicate can meet: those of the rooms and the text message
\* that asked for a recovery.
EventsMet ==
    UNION {Range(timeline[r]) : r \in Rooms} \cup {last.event}

\* C20: event_related_to_poll(event, id) holds exactly for a poll start whose
\* own id is id and for a poll response or poll end whose back-reference is
\* id; it is false for other types and for classes other than UnknownEvent;
\* and a recovery run collects exactly the events of the walked history for
\* which it holds.
C20_EventRelatedToPoll ==
    /\ \A event \in EventsMet : \A event_id \in Range(EventIds) \cup {""} :
           event_related_to_poll(event, event_id) = RelatedToPoll(event, event_id)
    /\ last.result = "replay" =>
           /\ \A event \in Range(run.events) : RelatedToPoll(event, last.event.ref)
           /\ \A event \in Range(SubSeq(timeline[last.event.room_id], 1,
                                        loaded_sync_token[last.event.room_id])) :
                  (/\ RelatedToPoll(event, last.event.ref)
                   /\ \E i \in DOMAIN run.events : run.events[i].type \in StartTypes)
                  => event \in Range(run.events)

\* A recovery run met a start with another id, a response to the poll asked
\* for and the poll's own start, and collected the latter two.
C20_Witness ==
    /\ last.result = "replay" /\ Len(run.events) = 2
    /\ \E event \in Range(timeline[last.event.room_id]) :
           event.type \in StartTypes /\ event.event_id # last.event.ref
    /\ run.events[1].type \in StartTypes
    /\ run.events[2].type \in ResponseTypes

----------------------------------------------------------------------------
\* The store and the outbox as the latest invocation found them.
Before ==
    [polls |-> last.polls, answers |-> last.answers, responses |-> last.responses,
     outbox |-> last.outbox, sent |-> last.sent]

PollTypes == StartTypes \cup ResponseTypes \cup EndTypes

\* The same event under the other type string of its kind.
Twin(event) ==
    LET Other(types) == CHOOSE t \in types : t # event.type
    IN  [event EXCEPT !.type = IF event.type \in StartTypes THEN Other(StartTypes)
                               ELSE IF event.type \in ResponseTypes
                               THEN Other(ResponseTypes)
                               ELSE Other(EndTypes)]

\* C21: a start, response or end under the legacy type string and the same
\* event under the stabilized type string are handled identically: whenever
\* the handler has dealt with one of them, the other would have left the same
\* store, made the same calls and ended the same way, from the same store, at
\* any age and with either outcome of the send; and the membership predicate
\* gives the same answer for both.
C21_LegacyAndStableTypesAlike ==
    Handled(PollTypes) =>
        /\ \A age \in Ages : \A send_ok \in BOOLEAN :
               unknown(Before, last.event.room_id, Twin(last.event),
                       last.mode = "live", age, send_ok)
               = unknown(Before, last.event.room_id, last.event,
                         last.mode = "live", age, send_ok)
        /\ \E send_ok \in BOOLEAN :
               LET r == unknown(Before, last.event.room_id, Twin(last.event),
                                last.mode = "live", last.age, send_ok)
               IN  r.w = World /\ r.exc = last.exc /\ r.result = last.result
        /\ \A event_id \in Range(EventIds) \cup {""} :
               event_related_to_poll(Twin(last.event), event_id)
               = event_related_to_poll(last.event, event_id)

\* A response under the stabilized type string has been stored and has led
\* to an edit of the tally.
C21_Witness ==
    /\ Handled(ResponseTypes) /\ last.event.type = Stable(ResponseTypes)
    /\ last.result = "edited"
    /\ responses # last.responses

----------------------------------------------------------------------------
\* The text message opens with a mention (a pill) of the bot.
MentionsBot(event) ==
    /\ event.formatted_body # <<>>
    /\ Head(event.formatted_body) = "<a href=\"https://matrix.to/#/@poll:x\""

\* C22: a text message that does not open with a mention of the bot, or
\* carries no reply back-reference, or was sent by the bot itself, triggers
\* no event fetch, no key request, no history walk, no store mutation, no
\* outbound message and no replay.
C22_RecoveryOnlyOnMentioningReply ==
    (/\ last.handler = "message"
     /\ \/ last.event.sender = BotUser
        \/ ~MentionsBot(last.event)
        \/ last.event.ref = "")
    => /\ last.calls = NoCalls
       /\ StoreUnchanged
       /\ NewCalls = <<>>
       /\ replay = <<>>

\* Another user's reply to a poll start the store does not hold, without the
\* mention: with the mention it would have started a recovery.
C22_Witness ==
    /\ last.handler = "message"
    /\ last.event.sender # BotUser
    /\ ~MentionsBot(last.event)
    /\ last.age <= StaleAfter
    /\ \E i \in DOMAIN timeline[last.event.room_id] :
           /\ timeline[last.event.room_id][i].event_id = last.event.ref
           /\ timeline[last.event.room_id][i].type \in StartTypes
           /\ get_poll(polls, last.event.room_id, last.event.ref) = <<>>

----------------------------------------------------------------------------
\* A recovery request turned down because the referenced event is not a poll
\* start, or because the store already holds the poll.
NotAPoll == last.handler = "message" /\ last.result \in {"not unknown", "not a poll"}

AlreadyTracked == last.handler = "message" /\ last.result = "already tracked"

\* Nothing but the warning came of the request.
OnlyWarned ==
    /\ Len(NewCalls) = 1
    /\ NewCalls[1].room_id = last.event.room_id
    /\ NewCalls[1].edit_event_id = None
    /\ NewCalls[1].message.lines = <<>>
    /\ last.calls.room_messages = <<>>
    /\ replay = <<>>
    /\ StoreUnchanged

\* C23 as stated: such a request gets exactly one warning, sent as a reply to
\* the requester's message; no history is fetched, nothing is replayed and
\* the store is unchanged.
C23_WarningRepliesToRequester ==
    (NotAPoll \/ AlreadyTracked) =>
        /\ OnlyWarned
        /\ NewCalls[1].reply_to_event_id = last.event.event_id

\* C23: such a request gets exactly one warning in the room and nothing else
\* happens; the warning is a reply to the event the request referenced when
\* that is not a poll start, and for a poll the store holds a reply to the
\* poll's tally message, or no reply at all when the poll has no
\* reply_event_id.
C23_WarningRepliesToReferencedEvent ==
    /\ NotAPoll =>
           /\ OnlyWarned
           /\ NewCalls[1].reply_to_event_id = last.event.ref
    /\ AlreadyTracked =>
           /\ OnlyWarned
           /\ \E poll \in Range(polls) :
                  /\ poll.room_id = last.event.room_id
                  /\ poll.event_id = last.event.ref
                  /\ NewCalls[1].reply_to_event_id = poll.reply_event_id
                  /\ NewCalls[1].message.label
                     = "This statistics for this poll has already been created."

\* A request for a poll whose tally message is on record was turned down.
C23_Witness ==
    /\ AlreadyTracked
    /\ \E poll \in Range(polls) :
           /\ poll.event_id = last.event.ref
           /\ poll.reply_event_id \in Range(MsgIds)

----------------------------------------------------------------------------
\* The request passed the gate and the event it references reached the bot
\* as a MegolmEvent.
ReferencesEncrypted ==
    /\ Requested
    /\ \E event \in Range(timeline[last.event.room_id]) :
           event.event_id = last.event.ref /\ event.cls = "MegolmEvent"

Failed(outcomes) == \E i \in DOMAIN outcomes : ~outcomes[i]

\* C24: for an encrypted referenced event the coordinator asks for the key
\* once and, if that went through, decrypts once; if either fails it sends
\* exactly one warning to the room and returns without a history walk, a
\* replay or a store mutation, after a failed key request without even the
\* decryption; and nothing is tried a second time.
C24_OneKeyRequestOneDecryption ==
    ReferencesEncrypted =>
        /\ Len(last.calls.request_room_key) = 1
        /\ Len(last.calls.decrypt_megolm_event)
           = IF Failed(last.calls.request_room_key) THEN 0 ELSE 1
        /\ (Failed(last.calls.request_room_key) \/ Failed(last.calls.decrypt_megolm_event))
           => /\ Len(NewCalls) = 1
              /\ NewCalls[1].room_id = last.event.room_id
              /\ NewCalls[1].edit_event_id = None
              /\ NewCalls[1].message.label
                 = IF Failed(last.calls.request_room_key)
                   THEN "Unable to get keys for this poll. Please create a new one"
                   ELSE "Unable to decrypt this poll. Please create a new one"
              /\ last.calls.room_messages = <<>>
              /\ replay = <<>>
              /\ StoreUnchanged

\* The key request went through and the decryption after it failed.
C24_Witness ==
    /\ ReferencesEncrypted
    /\ last.calls.request_room_key = <<TRUE>>
    /\ last.calls.decrypt_megolm_event = <<FALSE>>

----------------------------------------------------------------------------
\* A request that went as far as the history walk, and what the walk met.
Walked == last.handler = "message" /\ last.result = "replay"

WalkedRoom == timeline[last.event.room_id]

WalkedFrom == loaded_sync_token[last.event.room_id]

\* Where the poll start the request references stands in the room's history.
StartPosition == CHOOSE i \in DOMAIN WalkedRoom : WalkedRoom[i].event_id = last.event.ref

\* C25: the backward walk of a recovery run ends on every history: it begins
\* at the loaded sync token, every page it asks for lies strictly before the
\* one asked before, so no page is fetched twice and there are at most as
\* many pages as events plus one; when the poll start lies in the walked part
\* the last page asked is the one holding it, and otherwise the last page is
\* the empty one at the beginning of the history.
C25_WalkTerminates ==
    Walked =>
        LET pages == last.calls.room_messages
        IN  /\ pages # <<>>
            /\ pages[1] = WalkedFrom
            /\ \A i \in DOMAIN pages : \A j \in DOMAIN pages : i < j => pages[i] > pages[j]
            /\ Len(pages) <= Len(WalkedRoom) + 1
            /\ IF StartPosition <= WalkedFrom
               THEN /\ StartPosition <= pages[Len(pages)]
                    /\ pages[Len(pages)] < StartPosition + PageSize
               ELSE pages[Len(pages)] = 0

\* The walk found the poll start on its second page and stopped there, the
\* page at the beginning of the history unasked.
C25_Witness ==
    /\ Walked
    /\ Len(last.calls.room_messages) = 2
    /\ StartPosition <= WalkedFrom
    /\ last.calls.room_messages[2] > 0
    /\ Len(replay) > 1

----------------------------------------------------------------------------
\* The replay loop run to its end on events from w: each event goes through
\* unknown with ignore_old = False, an exception ends the loop.
RECURSIVE ReplayLoop(_, _, _, _)
ReplayLoop(w, events, age, send_ok) ==
    IF events = <<>> THEN w
    ELSE LET r == unknown(w, Head(events).room_id, Head(events), FALSE, age, send_ok)
         IN  IF r.exc # "" THEN r.w ELSE ReplayLoop(r.w, Tail(events), age, send_ok)

\* The walk collected the poll start the request references.
StartCollected ==
    \E i \in DOMAIN replay :
        replay[i].type \in StartTypes /\ replay[i].event_id = last.event.ref

\* Responses and ends of the poll the request references, as a walk that
\* missed the start could hand them to the replay loop: up to two of them.
StrayFamily ==
    LET family == {[e EXCEPT !.room_id = last.event.room_id, !.event_id = "$9"] :
                      e \in {ResponseEvent(Legacy(ResponseTypes), "@bob:x",
                                          last.event.ref, <<"a1">>),
                             ResponseEvent(Stable(ResponseTypes), "@amy:x",
                                           last.event.ref, <<>>),
                             EndEvent(Legacy(EndTypes), last.event.ref)}}
    IN  {<<>>} \cup {<<e>> : e \in family}
        \cup {<<e, f>> : e \in family, f \in family}

\* C26: when the walk of a recovery run has ended without the poll start it
\* was after, the coordinator has changed nothing and sent nothing, and the
\* replay of what it collected, or of any responses and ends of that poll,
\* at any age and with any outcome of a send, creates no poll, answer or
\* response and makes no send or edit.
C26_NothingRecoveredWithoutStart ==
    (Walked /\ ~StartCollected) =>
        /\ StoreUnchanged
        /\ NewCalls = <<>>
        /\ \A events \in {replay} \cup StrayFamily :
               \A age \in Ages : \A send_ok \in BOOLEAN :
                   ReplayLoop(World, events, age, send_ok) = World

\* The poll start lies after the loaded sync token, in a room that has older
\* events: the walk went through them page by page to the beginning of the
\* history and did not meet it.
C26_Witness ==
    /\ Walked
    /\ ~StartCollected
    /\ StartPosition > WalkedFrom
    /\ Len(last.calls.room_messages) > 1
    /\ last.calls.room_messages[Len(last.calls.room_messages)] = 0

----------------------------------------------------------------------------
\* An event of the room as the bot reads it during the run: in the clear once
\* the run has decrypted the poll start.
AsRead(event) ==
    IF last.calls.decrypt_megolm_event = <<TRUE>> /\ event.cls = "MegolmEvent"
    THEN [event EXCEPT !.cls = event.decrypts_to, !.decrypts_to = ""]
    ELSE event

\* The events of the room from the poll start to the position the walk began
\* at, oldest first, that belong to the family of the poll.
FamilySince ==
    LET InFamily(event) == RelatedToPoll(event, last.event.ref)
        since == [i \in 1..(WalkedFrom + 1 - StartPosition) |->
                     AsRead(WalkedRoom[StartPosition + i - 1])]
    IN  SelectSeq(since, InFamily)

\* C27: when the walk has found the poll start, the events handed to the
\* replay loop are exactly the events of the poll's family that lie between
\* the poll start and the position the walk began at, in the order of the
\* room history, the poll start first: no event of another poll and no event
\* older than the poll start is among them.
C27_ReplayIsTheFamilyInOrder ==
    (Walked /\ StartCollected) =>
        /\ replay = FamilySince
        /\ replay[1].type \in StartTypes
        /\ replay[1].event_id = last.event.ref

\* The walk collected a poll start, a response and an end.
C27_Witness ==
    /\ Walked
    /\ StartCollected
    /\ Len(replay) = 3
    /\ replay[2].type \in ResponseTypes
    /\ replay[3].type \in EndTypes

----------------------------------------------------------------------------
\* The latest event was handled as an event that has just been posted is:
\* the store and the outbox are those the handler leaves for it inside the
\* staleness window, from the same store.
HandledAsFresh ==
    \E send_ok \in BOOLEAN :
        LET r == unknown(Before, last.event.room_id, last.event, TRUE, StaleAfter, send_ok)
        IN  r.w = World /\ r.exc = last.exc /\ r.result = last.result

\* C28: with the staleness filter active (config.filter_old_messages false) a
\* live poll event older than 300 seconds changes nothing in the store and
\* causes no call; a poll event of a recovery replay is handled as a fresh
\* one whatever its age; and so is a live poll event when the filter is
\* configured off.
C28_StalenessFilter ==
    Handled(PollTypes) =>
        /\ (last.mode = "live" /\ ~filter_old_messages /\ last.age > StaleAfter)
           => StoreUnchanged /\ NewCalls = <<>>
        /\ (last.mode = "replay" \/ filter_old_messages \/ last.age <= StaleAfter)
           => HandledAsFresh

\* With the filter active a recovery replay has handled a poll start older
\* than 300 seconds: the poll is stored and its tally sent.
C28_Witness ==
    /\ Handled(StartTypes)
    /\ last.mode = "replay"
    /\ ~filter_old_messages
    /\ last.age > StaleAfter
    /\ last.result = "sent"
    /\ HasPoll(polls, last.event.room_id, last.event.event_id)

----------------------------------------------------------------------------
\* The PollStart handler was left by an exception after it had inserted the
\* poll: an answer id repeated, or the send returned no event id.
Interrupted ==
    /\ Handled(StartTypes)
    /\ last.exc # ""
    /\ ~HasPoll(last.polls, last.event.room_id, last.event.event_id)

\* C29: when the PollStart handler is left by an exception after the poll was
\* inserted, nothing is taken back: the store holds what it held, the Poll of
\* the event with no reply_event_id and the Answer rows inserted up to then
\* (all of them when it was the send that failed); and no handler run sets
\* the reply_event_id of a stored Poll that has none.
C29_NoRollbackNoLaterReplyId ==
    /\ Interrupted =>
           LET e == last.event
               want == StorableAnswers(e.answers)
           IN  /\ polls = Append(last.polls,
                                 [room_id |-> e.room_id, event_id |-> e.event_id,
                                  topic |-> e.topic, kind |-> e.kind,
                                  reply_event_id |-> None])
               /\ answers = last.answers \o
                      [i \in DOMAIN want.kept |->
                          [answer |-> want.kept[i].text, answer_hash |-> want.kept[i].id,
                           room_id |-> e.room_id, reference_id |-> e.event_id]]
               /\ responses = last.responses
               /\ want.repeated = (last.exc = "IntegrityError")
               /\ ~want.repeated => (last.exc = "AttributeError" /\ Len(NewCalls) = 1)
    /\ \A row \in Range(last.polls) :
           row.reply_event_id = None =>
               \A now \in Range(polls) :
                   (now.room_id = row.room_id /\ now.event_id = row.event_id)
                   => now.reply_event_id = None

\* The send of the first tally returned no event id: the poll and its two
\* answers are stored, the poll without a reply_event_id.
C29_Witness ==
    /\ Interrupted
    /\ last.exc = "AttributeError"
    /\ Len(FamilyRows(answers, last.event.room_id, last.event.event_id)) = 2
    /\ get_poll(polls, last.event.room_id, last.event.event_id)[1].reply_event_id = None

----------------------------------------------------------------------------
\* The handler was given a PollStart whose poll the store already held.
StartOfStoredPoll ==
    /\ Handled(StartTypes)
    /\ HasPoll(last.polls, last.event.room_id, last.event.event_id)

\* C30: a PollStart whose (room_id, event_id) the store already holds leaves
\* the Poll with its reply_event_id, the Answers and the Responses as they
\* were and causes no call: no second tally message is sent.  (Inside the
\* staleness window the handler ends with the IntegrityError of the INSERT.)
C30_StoredPollStartChangesNothing ==
    StartOfStoredPoll =>
        /\ StoreUnchanged
        /\ NewCalls = <<>>
        /\ sent = last.sent
        /\ (last.result # "stale") => last.exc = "IntegrityError"

\* A start was handed over again, inside the staleness window, for a poll
\* that has its tally message and a response.
C30_Witness ==
    /\ StartOfStoredPoll
    /\ last.result # "stale"
    /\ get_poll(polls, last.event.room_id, last.event.event_id)[1].reply_event_id # None
    /\ FamilyRows(responses, last.event.room_id, last.event.event_id) # <<>>

----------------------------------------------------------------------------
\* C31: in every state between handler invocations every Answer row and every
\* Response row references a Poll the store holds: the row's (room_id,
\* reference_id) is the (room_id, event_id) of a stored Poll.
C31_NoOrphanedChildren ==
    /\ \A row \in Range(answers) : HasPoll(polls, row.room_id, row.reference_id)
    /\ \A row \in Range(responses) : HasPoll(polls, row.room_id, row.reference_id)

\* A PollEnd has removed a poll that had answers and a response: none of
\* them is left.
C31_Witness ==
    /\ Handled(EndTypes)
    /\ last.result = "ended"
    /\ FamilyRows(last.answers, last.event.room_id, last.event.ref) # <<>>
    /\ FamilyRows(last.responses, last.event.room_id, last.event.ref) # <<>>
    /\ ~HasPoll(polls, last.event.room_id, last.event.ref)

----------------------------------------------------------------------------
\* The event id of the poll the handled event belongs to: its own for a
\* start, its back-reference for a response or an end.
PollOf == IF last.event.type \in StartTypes THEN last.event.event_id ELSE last.event.ref

OtherPoll(row) == ~(row.room_id = last.event.room_id /\ row.event_id = PollOf)

OtherChild(row) == ~(row.room_id = last.event.room_id /\ row.reference_id = PollOf)

\* C32: handling a start, response or end of poll (r, e) leaves the Poll,
\* Answer and Response rows of every other poll as they were, those of a poll
\* with the same event id in another room and of another poll in the same
\* room among them, and makes no edit of the tally message of another poll.
C32_OtherPollsUntouched ==
    Handled(PollTypes) =>
        /\ SelectSeq(polls, OtherPoll) = SelectSeq(last.polls, OtherPoll)
        /\ SelectSeq(answers, OtherChild) = SelectSeq(last.answers, OtherChild)
        /\ SelectSeq(responses, OtherChild) = SelectSeq(last.responses, OtherChild)
        /\ \A i \in DOMAIN NewCalls :
               /\ NewCalls[i].room_id = last.event.room_id
               /\ NewCalls[i].edit_event_id # None =>
                      \A row \in Range(last.polls) :
                          OtherPoll(row) => row.reply_event_id # NewCalls[i].edit_event_id

\* A response was stored and the tally edited for a poll while the other
\* room holds a poll with the same event id, its answers and its own tally
\* message.
C32_Witness ==
    /\ Handled(ResponseTypes)
    /\ last.result = "edited"
    /\ \E row \in Range(last.polls) :
           /\ row.room_id # last.event.room_id
           /\ row.event_id = last.event.ref
           /\ row.reply_event_id # None
           /\ FamilyRows(answers, row.room_id, row.event_id) # <<>>

====
